---- MODULE Spec2Model ----
(***************************************************************************)
(* Widget identity and state reconciliation of the options-selector        *)
(* widgets (lib/streamlit/elements/widgets/options_selector) and of        *)
(* st.navigation (lib/streamlit/commands/pages.py).                        *)
(*                                                                         *)
(* Python values are records [tag, n, s]: None, an int n, or a str whose   *)
(* characters are the sequence s.  Equality of records is Python's ==.     *)
(***************************************************************************)
EXTENDS Integers, Sequences, FiniteSets, TLC

VARIABLES
    pc, opt, dflt, res,      \* the pure functions: position, inputs, result
    widget_states,           \* State Register: widget id -> current value
    pending,                 \* external writes: widget id -> wire payload
    queue,                   \* the outgoing queue of dg._enqueue
    ledger,                  \* save_for_app_testing: widget id -> value
    last,                    \* the last widget-construction call, its outcome
    ncalls,                  \* widget-construction calls made so far
    script,                  \* what the app script passes to every call
    callA, callB,            \* two _button_group calls whose ids are compared
    nav_ctx,                 \* the script-run context navigation works on
    nav                      \* the last navigation call, its outcome

pureVars == <<pc, opt, dflt, res>>
widgetVars == <<widget_states, pending, queue, ledger, last, ncalls, script>>
idVars == <<callA, callB>>
navVars == <<nav_ctx, nav>>
vars == <<pc, opt, dflt, res, widget_states, pending, queue, ledger, last,
          ncalls, script, callA, callB, nav_ctx, nav>>

\* Python ints 0..MaxInt are drawn as option and default values.
MaxInt == 1
\* Option sequences and default containers hold at most MaxLen elements.
MaxLen == 2
\* Widget-construction calls in one behaviour.
MaxCalls == 2
\* External writes pending at one time.
MaxPending == 1
\* max_selections is None or one of 0..MaxSelections.
MaxSelections == 1
\* Pages passed to one navigation call, over all its sections.
MaxPages == 2

----------------------------------------------------------------------------
(* Python values                                                           *)

NoneV == [tag |-> "none", n |-> 0, s |-> <<>>]
IntV(k) == [tag |-> "int", n |-> k, s |-> <<>>]
StrV(cs) == [tag |-> "str", n |-> 0, s |-> cs]

\* The str values drawn: "1" and "11" (iterating "11" gives "1", "1").
Strs == {<<"1">>, <<"1", "1">>}

Values == {NoneV} \cup {IntV(k) : k \in 0..MaxInt} \cup {StrV(cs) : cs \in Strs}

\* bool(v): None, 0 and "" are falsy.
Truthy(v) == CASE v.tag = "none" -> FALSE
               [] v.tag = "int" -> v.n # 0
               [] OTHER -> v.s # <<>>

\* A str is the only scalar here that iter() accepts.
IsIterable(v) == v.tag = "str"

\* list(v) of a str: its characters, each a str of length one.
ListOfStr(v) == [i \in 1..Len(v.s) |-> StrV(<<v.s[i]>>)]

\* x in seq
In(x, seq) == \E i \in 1..Len(seq) : seq[i] = x

\* seq.index(x): the first 0-based position of x (x is in seq).
Index(seq, x) == CHOOSE i \in 0..(Len(seq) - 1) :
                    /\ seq[i + 1] = x
                    /\ \A j \in 0..(i - 1) : seq[j + 1] # x

DigitChars == <<"0", "1", "2", "3", "4", "5", "6", "7", "8", "9">>

RECURSIVE IntStr(_)
IntStr(k) == IF k < 10 THEN <<DigitChars[k + 1]>>
             ELSE IntStr(k \div 10) \o <<DigitChars[(k % 10) + 1]>>

\* str(v), as a sequence of characters.
Str(v) == CASE v.tag = "none" -> <<"N", "o", "n", "e">>
            [] v.tag = "int" -> IntStr(v.n)
            [] OTHER -> v.s

\* Sequences over S of length 0..k, and those without a repeated element.
SeqsUpTo(S, k) == UNION {[1..m -> S] : m \in 0..k}
NoDup(seq) == \A i, j \in 1..Len(seq) : i # j => seq[i] # seq[j]

----------------------------------------------------------------------------
(* The `default` argument: None, a list, a tuple, a set (in the order its  *)
(* iteration yields, which Python does not fix), a numpy array / pandas    *)
(* Series, or a single scalar (items = <<scalar>>).                        *)

NoDefault == [kind |-> "none", items |-> <<>>]
Scalar(v) == [kind |-> "scalar", items |-> <<v>>]
Container(k, items) == [kind |-> k, items |-> items]

\* The value `default_values` is bound to when it is not a container.
ScalarOf(d) == IF d.kind = "none" THEN NoneV ELSE d.items[1]

\* The values the caller supplied as defaults.
SuppliedValues(d) == IF d.kind = "none" THEN <<>> ELSE d.items

(* Outcome of _check_and_convert_to_indices: status "ok" with indices,     *)
(* "none" (returns None), "InvalidDefault" (StreamlitAPIException 'The     *)
(* default value ... is not part of the options', naming `named`), or      *)
(* "TypeError" (list() of a scalar that is not iterable).                  *)
Outcome(st, ix, nm) == [status |-> st, indices |-> ix, named |-> nm]

\* Lines 96-111: default_values brought to a list; status "TypeError" when
\* list(default_values) raises.
AsList(o, d) ==
    IF d.kind = "list" THEN [status |-> "ok", items |-> d.items]
    ELSE IF d.kind = "ndarray" THEN [status |-> "ok", items |-> d.items]
    ELSE IF \/ d.kind \in {"tuple", "set"}
            \/ (Truthy(ScalarOf(d)) /\ ~In(ScalarOf(d), o))
         THEN IF d.kind \in {"tuple", "set"}
                 THEN [status |-> "ok", items |-> d.items]
              ELSE IF IsIterable(ScalarOf(d))
                 THEN [status |-> "ok", items |-> ListOfStr(ScalarOf(d))]
              ELSE [status |-> "TypeError", items |-> <<>>]
    ELSE [status |-> "ok", items |-> <<ScalarOf(d)>>]

\* Lines 112-119: the first value that is not an option raises; otherwise
\* each value maps to opt.index(value).
IndicesOf(o, items) ==
    IF \E i \in 1..Len(items) : ~In(items[i], o)
       THEN LET i == CHOOSE i \in 1..Len(items) :
                        /\ ~In(items[i], o)
                        /\ \A j \in 1..(i - 1) : In(items[j], o)
            IN Outcome("InvalidDefault", <<>>, items[i])
    ELSE Outcome("ok", [i \in 1..Len(items) |-> Index(o, items[i])], NoneV)

CheckAndConvertToIndices(o, d) ==
    IF d.kind = "none" /\ ~In(NoneV, o) THEN Outcome("none", <<>>, NoneV)
    ELSE LET l == AsList(o, d)
         IN IF l.status # "ok" THEN Outcome(l.status, <<>>, NoneV)
            ELSE IndicesOf(o, l.items)

----------------------------------------------------------------------------
(* MultiSelectSerde(options, default_value)                                *)

\* The wire value None (no value from the client).
NoWire == [present |-> FALSE, indices |-> <<>>]
Wire(ix) == [present |-> TRUE, indices |-> ix]

\* Ascending rearrangement of a sequence of integers.
SortAsc(seq) ==
    LET n == Len(seq)
        E == {seq[i] : i \in 1..n}
    IN CHOOSE t \in [1..n -> E] :
          /\ \A i \in 1..(n - 1) : t[i] <= t[i + 1]
          /\ \A x \in E : Cardinality({i \in 1..n : t[i] = x})
                            = Cardinality({i \in 1..n : seq[i] = x})

\* Mutant of Serialize: the indices are returned in option order.
Serialize_OptionOrder(o, value) ==
    LET r == CheckAndConvertToIndices(o, Container("list", value))
    IN IF r.status = "none" THEN Outcome("ok", <<>>, NoneV)
       ELSE [r EXCEPT !.indices = SortAsc(r.indices)]

\* serialize(value): value is a list; the outcome carries the indices.
Serialize(o, value) ==
    LET r == CheckAndConvertToIndices(o, Container("list", value))
    IN IF r.status = "none" THEN Outcome("ok", <<>>, NoneV) ELSE r

\* Mutant of Deserialize: `ui_value or self.default_value`, so that an empty
\* ui_value falls back to the default too.
Deserialize_FalsyFallback(o, default_value, ui_value) ==
    LET current_value == IF ui_value.present /\ ui_value.indices # <<>>
                            THEN ui_value.indices
                         ELSE default_value
    IN [i \in 1..Len(current_value) |-> o[current_value[i] + 1]]

\* Mutant of Deserialize: an absent ui_value gives the empty list.
Deserialize_NoDefault(o, default_value, ui_value) ==
    LET current_value == IF ui_value.present THEN ui_value.indices ELSE <<>>
    IN [i \in 1..Len(current_value) |-> o[current_value[i] + 1]]

\* deserialize(ui_value): the options at ui_value, or at default_value when
\* ui_value is None.
Deserialize(o, default_value, ui_value) ==
    LET current_value == IF ui_value.present THEN ui_value.indices
                         ELSE default_value
    IN [i \in 1..Len(current_value) |-> o[current_value[i] + 1]]

----------------------------------------------------------------------------
(* transform_options                                                       *)

\* check_python_comparable: the options must be mutually comparable.
PythonComparable(o) == \A i, j \in 1..Len(o) : o[i].tag = o[j].tag

\* _default_format_func and a caller-supplied format_func ("kind" labels an
\* option by the name of its type).
FormatFuncs == {"default", "kind"}
\* The icons create_format_func maps the option indices of a feedback
\* widget to.
FeedbackIcons(label) ==
    CASE label = "thumbs" -> <<"thumb_up", "thumb_down">>
      [] label = "faces" -> <<"sentiment_sad", "sentiment_dissatisfied",
                              "sentiment_neutral", "sentiment_satisfied",
                              "sentiment_very_satisfied">>
      [] label = "stars" -> <<"star", "star", "star", "star", "star">>
      [] OTHER -> <<>>

Format(f, v) == IF f = "default" THEN Str(v)
                ELSE IF f = "kind"
                   THEN CASE v.tag = "none" -> <<"N">>
                          [] v.tag = "int" -> <<"i">>
                          [] OTHER -> <<"s">>
                ELSE <<FeedbackIcons(f)[v.n + 1]>>

\* status "ok" with (indexable_options, formatted_options, default_indices),
\* or the status of the exception raised.
TransformOptions(o, d, f) ==
    IF ~PythonComparable(o)
       THEN [status |-> "InvalidOptions", indexable_options |-> o,
             formatted_options |-> <<>>, default_indices |-> <<>>,
             named |-> NoneV]
    ELSE LET r == CheckAndConvertToIndices(o, d)
         IN IF r.status \in {"ok", "none"}
               THEN [status |-> "ok", indexable_options |-> o,
                     formatted_options |-> [i \in 1..Len(o) |-> Format(f, o[i])],
                     default_indices |-> r.indices, named |-> NoneV]
            ELSE [status |-> r.status, indexable_options |-> o,
                  formatted_options |-> <<>>, default_indices |-> <<>>,
                  named |-> r.named]

----------------------------------------------------------------------------
(* Specification of the pure functions: the inputs are drawn in the        *)
(* initial state and each action applies one function to them.             *)

OptionSeqs == SeqsUpTo(Values, MaxLen)

Defaults ==
    {NoDefault} \cup {Scalar(v) : v \in Values \ {NoneV}}
    \cup {Container(k, s) : k \in {"list", "tuple"}, s \in SeqsUpTo(Values, MaxLen)}
    \cup {Container("set", s) : s \in {t \in SeqsUpTo(Values, MaxLen) : NoDup(t)}}

NoRes == [op |-> "none", status |-> "none", indices |-> <<>>, named |-> NoneV,
          formatted |-> <<>>, value |-> <<>>, default_value |-> <<>>]

PureInit ==
    /\ pc = "start"
    /\ opt \in OptionSeqs
    /\ dflt \in Defaults
    /\ res = NoRes
    /\ widget_states = <<>> /\ pending = <<>> /\ queue = <<>>
    /\ ledger = <<>> /\ last = <<>> /\ ncalls = 0 /\ script = <<>>
    /\ callA = <<>> /\ callB = <<>>
    /\ nav_ctx = <<>> /\ nav = <<>>

\* indices = _check_and_convert_to_indices(opt, dflt)
ConvertStep ==
    /\ pc = "start"
    /\ LET r == CheckAndConvertToIndices(opt, dflt)
       IN res' = [NoRes EXCEPT !.op = "convert", !.status = r.status,
                               !.indices = r.indices, !.named = r.named]
    /\ pc' = "done"
    /\ UNCHANGED <<opt, dflt>>
    /\ UNCHANGED <<widgetVars, idVars, navVars>>

\* transform_options(opt, dflt, format_func)
TransformStep ==
    /\ pc = "start"
    /\ \E f \in FormatFuncs :
         LET r == TransformOptions(opt, dflt, f)
         IN res' = [NoRes EXCEPT !.op = "transform", !.status = r.status,
                                 !.indices = r.default_indices,
                                 !.named = r.named,
                                 !.formatted = r.formatted_options]
    /\ pc' = "done"
    /\ UNCHANGED <<opt, dflt>>
    /\ UNCHANGED <<widgetVars, idVars, navVars>>

\* serde = MultiSelectSerde(opt, default_value); serde.serialize(v) for the
\* list v = dflt.
SerializeStep ==
    /\ pc = "start"
    /\ dflt.kind = "list"
    /\ \E dv \in {<<>>} \cup {<<0>> : i \in 1..Len(opt)} :
         LET r == Serialize(opt, dflt.items)
         IN res' = [NoRes EXCEPT !.op = "serialize", !.status = r.status,
                                 !.indices = r.indices, !.named = r.named,
                                 !.default_value = dv]
    /\ pc' = "serialized"
    /\ UNCHANGED <<opt, dflt>>
    /\ UNCHANGED <<widgetVars, idVars, navVars>>

\* serde.deserialize(indices) of the indices serialize returned.
DeserializeStep ==
    /\ pc = "serialized"
    /\ res.status = "ok"
    /\ res' = [res EXCEPT !.op = "deserialize",
                          !.value = Deserialize(opt, res.default_value,
                                                Wire(res.indices))]
    /\ pc' = "done"
    /\ UNCHANGED <<opt, dflt>>
    /\ UNCHANGED <<widgetVars, idVars, navVars>>

PureNext == ConvertStep \/ TransformStep \/ SerializeStep \/ DeserializeStep

SpecPure == PureInit /\ [][PureNext]_vars

----------------------------------------------------------------------------
(* Properties of the pure functions (checked under SpecPure)               *)

\* Some supplied default value is not an element of the options.
SomeDefaultMissing == \E i \in 1..Len(SuppliedValues(dflt)) :
                         ~In(SuppliedValues(dflt)[i], opt)

\* C1: whenever a supplied default value (an element of a list, tuple or
\* set, or a single scalar) is not among the options,
\* _check_and_convert_to_indices and transform_options fail with the
\* invalid-default error naming a missing value, and with nothing else.
C1_MissingDefaultIsInvalidDefault ==
    (/\ pc = "done"
     /\ res.op \in {"convert", "transform"}
     /\ PythonComparable(opt)
     /\ SomeDefaultMissing)
    => /\ res.status = "InvalidDefault"
       /\ In(res.named, SuppliedValues(dflt))
       /\ ~In(res.named, opt)

\* C2: deserialize(serialize(v)) = v for every list v of options, and
\* serialize accepts every such list.
C2_SerdeRoundTrip ==
    /\ (pc = "done" /\ res.op = "deserialize") => res.value = dflt.items
    /\ (pc = "serialized" /\ ~SomeDefaultMissing) => res.status = "ok"

\* A round trip of a two-element list whose order is not option order,
\* through a serde whose default is not empty.
C2_Witness ==
    /\ pc = "done" /\ res.op = "deserialize"
    /\ res.indices = <<1, 0>>
    /\ res.default_value # <<>>

\* A round trip of the empty list through a serde with a default.
C2_WitnessEmpty ==
    /\ pc = "done" /\ res.op = "deserialize"
    /\ dflt.items = <<>> /\ res.default_value # <<>>

\* C3 as stated: serialize returns the indices of distinct selected values
\* in ascending (option) order, whatever order the caller listed them in.
C3_IndicesInOptionOrder ==
    (/\ pc = "serialized" /\ res.status = "ok" /\ NoDup(dflt.items))
    => \A i \in 1..(Len(res.indices) - 1) : res.indices[i] < res.indices[i + 1]

\* C3 amended: serialize returns one index per listed value, in the order
\* the caller listed the values; each is the first position of that value
\* in the options.
C3_IndicesInCallerOrder ==
    (pc = "serialized" /\ res.status = "ok")
    => /\ Len(res.indices) = Len(dflt.items)
       /\ \A i \in 1..Len(dflt.items) :
            /\ res.indices[i] \in 0..(Len(opt) - 1)
            /\ opt[res.indices[i] + 1] = dflt.items[i]
            /\ \A j \in 0..(res.indices[i] - 1) : opt[j + 1] # dflt.items[i]

\* serialize of [b, a] over the options [a, b] has returned [1, 0].
C3_Witness ==
    /\ pc = "serialized" /\ res.status = "ok"
    /\ Len(opt) = 2 /\ dflt.items = <<opt[2], opt[1]>> /\ opt[1] # opt[2]
    /\ res.indices = <<1, 0>>

----------------------------------------------------------------------------
(* Widget construction: the collaborators                                  *)

\* Tables (Python dicts) as functions; t[k] = v added or overwritten.
Put(t, k, v) == [x \in (DOMAIN t) \cup {k} |-> IF x = k THEN v ELSE t[x]]

\* get_script_run_ctx(): None, or a context with its active_script_hash.
NoCtx == [present |-> FALSE, active_script_hash |-> ""]
Ctx(h) == [present |-> TRUE, active_script_hash |-> h]

\* compute_widget_id: a content hash of its keyword arguments, taken to be
\* free of collisions: the identity is the tuple of what is hashed.
ComputeWidgetId(widget_name, user_key, key, options, default, disabled, selection_visualization, page) ==
    [widget_name |-> widget_name, user_key |-> user_key, key |-> key,
     options |-> options, default |-> default, disabled |-> disabled,
     selection_visualization |-> selection_visualization, page |-> page]

\* page=ctx.active_script_hash if ctx else None
PageOf(ctx) == IF ctx.present THEN StrV(<<ctx.active_script_hash>>) ELSE NoneV

\* Mutant of ButtonGroupWidgetId: the page is left out of the hash.
ButtonGroupWidgetId_NoPage(key, formatted_options, indexable_options, default_values, disabled, selection_visualization, ctx) ==
    ComputeWidgetId("button_group", key, key, formatted_options,
                    default_values, disabled, selection_visualization, NoneV)

\* Mutant of ButtonGroupWidgetId: the raw options are hashed, not the labels.
ButtonGroupWidgetId_RawOptions(key, formatted_options, indexable_options, default_values, disabled, selection_visualization, ctx) ==
    ComputeWidgetId("button_group", key, key, indexable_options,
                    default_values, disabled, selection_visualization,
                    PageOf(ctx))

\* The widget_id of _button_group (lines 306-315): the labels and the default
\* indices are hashed, the raw options (indexable_options) are not.
ButtonGroupWidgetId(key, formatted_options, indexable_options, default_values, disabled, selection_visualization, ctx) ==
    ComputeWidgetId("button_group", key, key, formatted_options,
                    default_values, disabled, selection_visualization,
                    PageOf(ctx))

\* The identity of a call that computed none.
NoId == ComputeWidgetId("", NoneV, NoneV, <<>>, <<>>, FALSE, "", NoneV)

\* _build_proto; value and set_value are the proto's initial (unset) fields.
BuildProto(widget_id, formatted_options, default_values, disabled, current_form_id, click_mode, selection_visualization) ==
    [id |-> widget_id, default |-> default_values, form_id |-> current_form_id,
     disabled |-> disabled, click_mode |-> click_mode,
     options |-> formatted_options,
     selection_visualization |-> selection_visualization,
     value |-> <<>>, set_value |-> FALSE]

NoProto == BuildProto(NoId, <<>>, <<>>, FALSE, "", "", "")

\* The execution context of a call, as the policy checks see it.
Envs == [fragment_replay : BOOLEAN, cache_replay : BOOLEAN,
         callbacks_disallowed : BOOLEAN]

\* A default that is supplied and not empty.
DefaultNonEmpty(d) == d.kind # "none" /\ d.items # <<>>

\* An external write is pending for the user key.
WritePendingForKey(key, pend) ==
    key # NoneV /\ \E id \in DOMAIN pend : id.key = key

\* The four policy checks; each is TRUE when it passes.
CheckFragmentPathPolicy(env) == ~env.fragment_replay
CheckCacheReplayRules(env) == ~env.cache_replay
CheckCallbackRules(env, on_change) == ~(on_change /\ env.callbacks_disallowed)
CheckSessionStateRules(d, key, pend) ==
    ~(DefaultNonEmpty(d) /\ WritePendingForKey(key, pend))

\* check_multiselect_policies: the checks in the order of lines 148-151; the
\* first that fails raises.  steps lists the checks evaluated.
CheckMultiselectPolicies(env, key, on_change, d, pend) ==
    IF ~CheckFragmentPathPolicy(env)
       THEN [status |-> "FragmentPathPolicy",
             steps |-> <<"check_fragment_path_policy">>]
    ELSE IF ~CheckCacheReplayRules(env)
       THEN [status |-> "CacheReplay",
             steps |-> <<"check_fragment_path_policy",
                         "check_cache_replay_rules">>]
    ELSE IF ~CheckCallbackRules(env, on_change)
       THEN [status |-> "CallbackNotAllowed",
             steps |-> <<"check_fragment_path_policy",
                         "check_cache_replay_rules", "check_callback_rules">>]
    ELSE IF ~CheckSessionStateRules(d, key, pend)
       THEN [status |-> "SessionStateConflict",
             steps |-> <<"check_fragment_path_policy",
                         "check_cache_replay_rules", "check_callback_rules",
                         "check_session_state_rules">>]
    ELSE [status |-> "ok",
          steps |-> <<"check_fragment_path_policy",
                      "check_cache_replay_rules", "check_callback_rules",
                      "check_session_state_rules">>]

PolicyErrors == {"FragmentPathPolicy", "CacheReplay", "CallbackNotAllowed",
                 "SessionStateConflict"}

\* register_widget: the value is the deserializer applied to the pending
\* external write, or to None when there is none; value_changed tells which.
RegisterWidget(widget_id, o, default_values, pend) ==
    LET wire == IF widget_id \in DOMAIN pend THEN Wire(pend[widget_id])
                ELSE NoWire
    IN [value |-> Deserialize(o, default_values, wire),
        value_changed |-> wire.present,
        wire |-> wire]

\* maybe_coerce / maybe_coerce_enum_sequence: each element of the value
\* that equals a current option is replaced by that option.
MaybeCoerce(widget_state, options, indexable_options) ==
    [widget_state EXCEPT !.value =
        [i \in 1..Len(widget_state.value) |->
            IF In(widget_state.value[i], indexable_options)
               THEN indexable_options[Index(indexable_options,
                                            widget_state.value[i]) + 1]
            ELSE widget_state.value[i]]]

\* _get_default_count of a list value.
GetDefaultCount(value) == Len(value)

\* Lines 202-205: `if max_selections and default_count > max_selections`.
\* TRUE when the selection-limit exception is raised.
OverMaxSelections(value, max_selections) ==
    Truthy(max_selections) /\ GetDefaultCount(value) > max_selections.n

\* Mutant of FillOverride: the override is written whether or not the value
\* changed.
FillOverride_Always(proto, widget_state, serialized) ==
    [proto EXCEPT !.value = serialized, !.set_value = TRUE]

\* Lines 213-215 (347-349 of button_group.py): the override and its marker.
FillOverride(proto, widget_state, serialized) ==
    IF widget_state.value_changed
       THEN [proto EXCEPT !.value = serialized, !.set_value = TRUE]
    ELSE proto

\* The record of a call: its outcome and the tables it leaves.
CallResult(call, status, steps, a, id, t, reg, proto, ws, q, led) ==
    [call |-> call, status |-> status, steps |-> steps, args |-> a,
     id |-> id, indexable_options |-> t.indexable_options,
     default_indices |-> t.default_indices, named |-> t.named,
     wire |-> reg.wire, value |-> reg.value,
     value_changed |-> reg.value_changed, proto |-> proto,
     ws |-> ws, q |-> q, led |-> led]

NoTransform == [indexable_options |-> <<>>, default_indices |-> <<>>,
                named |-> NoneV]
NoReg == [value |-> <<>>, value_changed |-> FALSE, wire |-> NoWire]

\* Lines 190-221 (332-355 of button_group.py): what follows the widget id.
\* a.max_selections is the limit (None in _button_group), a.app_testing_value
\* what is saved for app testing.
RegisterAndEnqueue(call, widget_name, a, id, t, proto, ctx, steps, ws, pend, q, led) ==
    LET o == t.indexable_options
        reg == RegisterWidget(id, o, t.default_indices, pend)
        ws2 == Put(ws, id, reg.value)
        s1 == steps \o <<"register_widget", "check_max_selections">>
    IN IF OverMaxSelections(reg.value, a.max_selections)
          THEN CallResult(call, "SelectionLimit", s1, a, id, t, reg, proto,
                          ws2, q, led)
       ELSE
       LET co == MaybeCoerce(reg, a.options, o)
           s2 == s1 \o <<"maybe_coerce">>
           ser == IF co.value_changed THEN Serialize(o, co.value)
                  ELSE Outcome("ok", <<>>, NoneV)
           s3 == IF co.value_changed THEN s2 \o <<"serializer">> ELSE s2
       IN IF ser.status # "ok"
             THEN CallResult(call, ser.status, s3, a, id, t, co, proto,
                             ws2, q, led)
          ELSE
          LET p2 == FillOverride(proto, co, ser.indices)
              led2 == IF ctx.present THEN Put(led, id, a.app_testing_value)
                      ELSE led
              s4 == IF ctx.present THEN s3 \o <<"save_for_app_testing">>
                    ELSE s3
          IN CallResult(call, "ok", s4 \o <<"_enqueue">>, a, id, t, co, p2,
                        ws2, Append(q, [widget_name |-> widget_name,
                                        proto |-> p2]), led2)

\* _button_group, lines 301-355: after the policy gate.
ButtonGroupBody(a, ctx, steps, ws, pend, q, led) ==
    LET t == TransformOptions(a.options, a.default, a.format_func)
        s1 == steps \o <<"transform_options">>
    IN IF t.status # "ok"
          THEN CallResult("button_group", t.status, s1, a, NoId, t, NoReg,
                          NoProto, ws, q, led)
       ELSE
       LET id == ButtonGroupWidgetId(a.key, t.formatted_options,
                                     t.indexable_options, t.default_indices,
                                     a.disabled, a.selection_visualization,
                                     ctx)
           proto == BuildProto(id, t.formatted_options, t.default_indices,
                               a.disabled, "", a.click_mode,
                               a.selection_visualization)
       IN RegisterAndEnqueue("button_group", "button_group", a, id, t, proto,
                             ctx, s1 \o <<"compute_widget_id">>,
                             ws, pend, q, led)

\* Mutant of ButtonGroupCall: the policy gate runs after the widget has
\* been registered and its message enqueued.
ButtonGroupCall_GateLast(a, env, ctx, ws, pend, q, led) ==
    LET body == ButtonGroupBody(a, ctx, <<>>, ws, pend, q, led)
        gate == CheckMultiselectPolicies(env, a.key, a.on_change, a.default,
                                         pend)
    IN IF body.status = "ok" /\ gate.status # "ok"
          THEN [body EXCEPT !.status = gate.status,
                            !.steps = body.steps \o gate.steps]
       ELSE body

\* _button_group, lines 297-355.
ButtonGroupCall(a, env, ctx, ws, pend, q, led) ==
    LET gate == CheckMultiselectPolicies(env, a.key, a.on_change, a.default,
                                         pend)
    IN IF gate.status # "ok"
          THEN CallResult("button_group", gate.status, gate.steps, a, NoId,
                          NoTransform, NoReg, NoProto, ws, q, led)
       ELSE ButtonGroupBody(a, ctx, gate.steps, ws, pend, q, led)

\* Mutant of RegisterWidgetAndEnqueueCall: the max-selections check is made
\* before register_widget, so a rejected call registers nothing.
RegisterWidgetAndEnqueueCall_CheckFirst(a, ctx, ws, pend, q, led) ==
    LET t == [indexable_options |-> a.options,
              default_indices |-> a.default_indices, named |-> NoneV]
        labels == [i \in 1..Len(a.options) |-> Format(a.format_func, a.options[i])]
        id == ComputeWidgetId("multiselect", a.key, a.key, labels,
                              a.default_indices, a.disabled,
                              a.selection_visualization, PageOf(ctx))
        proto == BuildProto(id, labels, a.default_indices, a.disabled, "",
                            a.click_mode, a.selection_visualization)
        r == RegisterAndEnqueue("register_widget_and_enqueue", "multiselect",
                                a, id, t, proto, ctx, <<>>, ws, pend, q, led)
    IN IF r.status = "SelectionLimit"
          THEN [r EXCEPT !.ws = ws,
                         !.steps = <<"check_max_selections">>]
       ELSE r

\* Mutant of RegisterWidgetAndEnqueueCall: the message is put at the head
\* of the queue, before the messages of the earlier calls.
RegisterWidgetAndEnqueueCall_EnqueueAtHead(a, ctx, ws, pend, q, led) ==
    LET t == [indexable_options |-> a.options,
              default_indices |-> a.default_indices, named |-> NoneV]
        labels == [i \in 1..Len(a.options) |-> Format(a.format_func, a.options[i])]
        id == ComputeWidgetId("multiselect", a.key, a.key, labels,
                              a.default_indices, a.disabled,
                              a.selection_visualization, PageOf(ctx))
        proto == BuildProto(id, labels, a.default_indices, a.disabled, "",
                            a.click_mode, a.selection_visualization)
        r == RegisterAndEnqueue("register_widget_and_enqueue", "multiselect",
                                a, id, t, proto, ctx, <<>>, ws, pend, q, led)
    IN IF r.status = "ok"
          THEN [r EXCEPT !.q = <<r.q[Len(r.q)]>> \o q]
       ELSE r

\* register_widget_and_enqueue, lines 174-221.  The caller has normalised
\* the options (a.options, already indexable), mapped the defaults to
\* a.default_indices and computed widget_id and proto from them.
RegisterWidgetAndEnqueueCall(a, ctx, ws, pend, q, led) ==
    LET t == [indexable_options |-> a.options,
              default_indices |-> a.default_indices, named |-> NoneV]
        labels == [i \in 1..Len(a.options) |-> Format(a.format_func, a.options[i])]
        id == ComputeWidgetId("multiselect", a.key, a.key, labels,
                              a.default_indices, a.disabled,
                              a.selection_visualization, PageOf(ctx))
        proto == BuildProto(id, labels, a.default_indices, a.disabled, "",
                            a.click_mode, a.selection_visualization)
    IN RegisterAndEnqueue("register_widget_and_enqueue", "multiselect", a,
                          id, t, proto, ctx, <<>>, ws, pend, q, led)

----------------------------------------------------------------------------
(* Specification of widget construction within script runs                 *)

Keys == {NoneV, StrV(<<"k">>)}
Ctxs == {NoCtx, Ctx("p")}

\* The option sequences of the widgets: two ints, and None twice (equal
\* options at two positions).
WidgetOptions == {<<IntV(0), IntV(1)>>, <<NoneV, NoneV>>}

\* The defaults passed with options o.
WidgetDefaults(o) ==
    {NoDefault, Container("list", <<>>), Container("list", <<o[2], o[1]>>),
     Scalar(IntV(1))}

\* Default indices a caller of register_widget_and_enqueue has computed.
WidgetDefaultIndices == {<<>>, <<0>>, <<1, 0>>}

\* max_selections: None or an int.
MaxSelectionsArgs == {NoneV} \cup {IntV(k) : k \in 0..MaxSelections}

\* Wire payloads an external write can carry for a widget of two options.
Payloads == {<<>>, <<1>>, <<1, 0>>}

NoEnv == [fragment_replay |-> FALSE, cache_replay |-> FALSE,
          callbacks_disallowed |-> FALSE]

Args(o, d, dix, key, on_change, env, max_selections, app_testing_value) ==
    [options |-> o, env |-> env, default |-> d, default_indices |-> dix, key |-> key,
     click_mode |-> "SINGLE_SELECT", disabled |-> FALSE,
     format_func |-> "default", on_change |-> on_change,
     selection_visualization |-> "ONLY_SELECTED",
     max_selections |-> max_selections,
     app_testing_value |-> app_testing_value]

NoCall == CallResult("none", "none", <<>>,
                     Args(<<>>, NoDefault, <<>>, NoneV, FALSE, NoEnv, NoneV, ""),
                     NoId, NoTransform, NoReg, NoProto, <<>>, <<>>, <<>>)

\* last, without the tables the call leaves.
Summary(r) == [x \in (DOMAIN r) \ {"ws", "q", "led"} |-> r[x]]

\* The policy contexts calls are made in, with the on_change they pass:
\* every check passing, each of the first three failing alone, and the
\* first two failing together.
PolicyCases ==
    {[env |-> NoEnv, on_change |-> FALSE],
     [env |-> [NoEnv EXCEPT !.callbacks_disallowed = TRUE], on_change |-> FALSE],
     [env |-> [NoEnv EXCEPT !.callbacks_disallowed = TRUE], on_change |-> TRUE],
     [env |-> [NoEnv EXCEPT !.fragment_replay = TRUE], on_change |-> FALSE],
     [env |-> [NoEnv EXCEPT !.cache_replay = TRUE], on_change |-> TRUE],
     [env |-> [NoEnv EXCEPT !.fragment_replay = TRUE, !.cache_replay = TRUE],
      on_change |-> FALSE]}

\* The app script fixes the options and the key of its widget and runs with
\* or without a script-run context.
WidgetInit ==
    /\ pc = "widgets" /\ opt = <<>> /\ dflt = NoDefault /\ res = NoRes
    /\ script \in [options : WidgetOptions, key : Keys, ctx : Ctxs]
    /\ widget_states = <<>>
    /\ pending = <<>>
    /\ queue = <<>>
    /\ ledger = <<>>
    /\ last = Summary(NoCall)
    /\ ncalls = 0
    /\ callA = <<>> /\ callB = <<>>
    /\ nav_ctx = <<>> /\ nav = <<>>

Finish(r) ==
    /\ widget_states' = r.ws
    /\ queue' = r.q
    /\ ledger' = r.led
    /\ last' = Summary(r)
    /\ ncalls' = ncalls + 1
    /\ UNCHANGED <<pending, script, pureVars, idVars, navVars>>

\* A script calls _button_group.
ButtonGroup ==
    /\ ncalls < MaxCalls
    /\ \E c \in PolicyCases, d \in WidgetDefaults(script.options) :
         Finish(ButtonGroupCall(
                   Args(script.options, d, <<>>, script.key, c.on_change,
                        c.env, NoneV, "format_func"),
                   c.env, script.ctx, widget_states, pending, queue, ledger))

\* A widget command (st.multiselect) calls register_widget_and_enqueue.
RegisterWidgetAndEnqueue ==
    /\ ncalls < MaxCalls
    /\ \E dix \in WidgetDefaultIndices, max_selections \in MaxSelectionsArgs :
         Finish(RegisterWidgetAndEnqueueCall(
                   Args(script.options, NoDefault, dix, script.key, FALSE,
                        NoEnv, max_selections, "format_func"),
                   script.ctx, widget_states, pending, queue, ledger))

\* An external write (client interaction or session-state assignment) to a
\* widget the client knows, selecting among the options it was sent.
ExternalWrite ==
    /\ ncalls < MaxCalls
    /\ Cardinality(DOMAIN pending) < MaxPending
    /\ \E id \in (DOMAIN widget_states) \ (DOMAIN pending), p \in Payloads :
         /\ \A i \in 1..Len(p) : p[i] < Len(id.options)
         /\ pending' = Put(pending, id, p)
    /\ UNCHANGED <<widget_states, queue, ledger, last, ncalls, script,
                   pureVars, idVars, navVars>>

\* The script run ends: the queue is flushed to the client and the external
\* writes of the run are consumed.
EndRun ==
    /\ ncalls < MaxCalls
    /\ queue # <<>> \/ pending # <<>>
    /\ queue' = <<>>
    /\ pending' = <<>>
    /\ UNCHANGED <<widget_states, ledger, last, ncalls, script,
                   pureVars, idVars, navVars>>

Next == ButtonGroup \/ RegisterWidgetAndEnqueue \/ ExternalWrite \/ EndRun

Spec == WidgetInit /\ [][Next]_vars

----------------------------------------------------------------------------
(* Specification of the widget identity: two _button_group calls, each     *)
(* with arguments and a context of its own, in a fresh session.            *)

\* Option sequences whose labels differ by order only (0,1 and 1,0) and
\* whose raw values differ under equal labels (1 and "1").
IdOptions == {<<IntV(0), IntV(1)>>, <<IntV(1), IntV(0)>>,
              <<IntV(1)>>, <<StrV(<<"1">>)>>}

IdDefaults(o) == {NoDefault, Container("list", <<o[1]>>)}

IdCtxs == {NoCtx, Ctx("p"), Ctx("q")}

IdArgs == {[Args(o, d, <<>>, key, FALSE, NoEnv, NoneV, "format_func")
              EXCEPT !.disabled = disabled, !.format_func = f,
                     !.selection_visualization = sv] :
             o \in IdOptions, d \in UNION {IdDefaults(x) : x \in IdOptions},
             key \in Keys, disabled \in BOOLEAN, f \in FormatFuncs,
             sv \in {"ONLY_SELECTED", "ALL_UP_TO_SELECTED"}}

\* The call's record, with the context it ran in.
IdCall(a, ctx) ==
    [r |-> Summary(ButtonGroupCall(a, NoEnv, ctx, <<>>, <<>>, <<>>, <<>>)),
     ctx |-> ctx]

NotCalled == [r |-> Summary(NoCall), ctx |-> NoCtx]

IdInit ==
    /\ pc = "identity" /\ opt = <<>> /\ dflt = NoDefault /\ res = NoRes
    /\ widget_states = <<>> /\ pending = <<>> /\ queue = <<>>
    /\ ledger = <<>> /\ last = <<>> /\ ncalls = 0 /\ script = <<>>
    /\ callA = NotCalled
    /\ callB = NotCalled
    /\ nav_ctx = <<>> /\ nav = <<>>

FirstCall ==
    /\ callA = NotCalled
    /\ \E a \in IdArgs, ctx \in IdCtxs : callA' = IdCall(a, ctx)
    /\ UNCHANGED <<callB, pureVars, widgetVars, navVars>>

SecondCall ==
    /\ callA # NotCalled /\ callB = NotCalled
    /\ \E a \in IdArgs, ctx \in IdCtxs : callB' = IdCall(a, ctx)
    /\ UNCHANGED <<callA, pureVars, widgetVars, navVars>>

IdNext == FirstCall \/ SecondCall

SpecId == IdInit /\ [][IdNext]_vars

----------------------------------------------------------------------------
(* Properties of the widget identity (checked under SpecId)                *)

\* Both calls have computed an identity.
BothIdentified == callA.r.id # NoId /\ callB.r.id # NoId

\* The arguments the identity claims speak of, one by one.
SameKey == callA.r.args.key = callB.r.args.key
SameOptions == callA.r.args.options = callB.r.args.options
SameDefault == callA.r.args.default = callB.r.args.default
SameDisabled == callA.r.args.disabled = callB.r.args.disabled
SamePage == PageOf(callA.ctx) = PageOf(callB.ctx)
SameRest == /\ callA.r.args.format_func = callB.r.args.format_func
            /\ callA.r.args.selection_visualization
                 = callB.r.args.selection_visualization
SameLabels == callA.r.proto.options = callB.r.proto.options
SameDefaultIndices == callA.r.default_indices = callB.r.default_indices
SameVisualization == callA.r.args.selection_visualization
                       = callB.r.args.selection_visualization

\* Exactly one of key, options, default, disabled and page differs.
OneInputDiffers ==
    /\ SameRest
    /\ Cardinality({x \in {"key", "options", "default", "disabled", "page"} :
                      CASE x = "key" -> ~SameKey
                        [] x = "options" -> ~SameOptions
                        [] x = "default" -> ~SameDefault
                        [] x = "disabled" -> ~SameDisabled
                        [] OTHER -> ~SamePage}) = 1

\* C9 as stated: equal (key, options, default, disabled, page) give equal
\* identities, and a difference in any single one of them gives different
\* identities.
C9_AnyInputChangesIdentity ==
    BothIdentified
    => /\ (SameKey /\ SameOptions /\ SameDefault /\ SameDisabled /\ SamePage
           /\ SameRest) => callA.r.id = callB.r.id
       /\ OneInputDiffers => callA.r.id # callB.r.id

\* C9 amended: the identity is deterministic, and two calls get different
\* identities exactly when they differ in the key, the sequence of formatted
\* labels, the default indices, the disabled flag, the selection
\* visualization or the page.
C9_IdentityOfHashedFields ==
    BothIdentified
    => /\ (SameKey /\ SameOptions /\ SameDefault /\ SameDisabled /\ SamePage
           /\ SameRest) => callA.r.id = callB.r.id
       /\ (callA.r.id # callB.r.id)
          <=> ~(SameKey /\ SameLabels /\ SameDefaultIndices /\ SameDisabled
                /\ SameVisualization /\ SamePage)

\* The same call on two pages, and the same call with its options
\* reordered, have been given different identities.
C9_Witness ==
    /\ BothIdentified /\ callA.r.id # callB.r.id
    /\ SameKey /\ SameOptions /\ SameDefault /\ SameDisabled /\ SameRest
    /\ callA.ctx = Ctx("p") /\ callB.ctx = Ctx("q")

\* Some position holds unequal raw options.
RawOptionsDiffer ==
    /\ Len(callA.r.args.options) = Len(callB.r.args.options)
    /\ \E i \in 1..Len(callA.r.args.options) :
          callA.r.args.options[i] # callB.r.args.options[i]

\* C10 as stated: options with the same labels at every position but
\* unequal raw values still give different identities.
C10_RawValuesDistinguish ==
    (BothIdentified /\ SameLabels /\ RawOptionsDiffer)
    => callA.r.id # callB.r.id

\* C10 amended: two constructions whose options format to the same labels
\* and which agree on key, default indices, disabled flag, selection
\* visualization and page get the same identity, whether or not their raw
\* option values compare equal: the raw values do not reach the hash.
C10_LabelsDecideIdentity ==
    (/\ BothIdentified /\ SameLabels /\ SameDefaultIndices /\ SameKey
     /\ SameDisabled /\ SameVisualization /\ SamePage)
    => callA.r.id = callB.r.id

\* The options [1] and ["1"], both labelled "1", share an identity.
C10_Witness ==
    /\ BothIdentified /\ SameLabels /\ RawOptionsDiffer
    /\ callA.r.args.options = <<IntV(1)>>
    /\ callB.r.args.options = <<StrV(<<"1">>)>>
    /\ callA.r.args.format_func = "default"
    /\ callB.r.args.format_func = "default"
    /\ callA.r.id = callB.r.id

----------------------------------------------------------------------------
(* Properties of widget construction (checked under Spec)                  *)

\* The last call invoked the collaborator named step.
Invoked(step) == \E i \in 1..Len(last.steps) : last.steps[i] = step

\* The message at the tail of the queue.
TailProto == queue[Len(queue)].proto

\* The options of o at the 0-based positions ix.
OptionsAt(o, ix) == [i \in 1..Len(ix) |-> o[ix[i] + 1]]

\* C4 as stated: with a limit max_selections given (any int, 0 included),
\* register_widget_and_enqueue fails with the selection-limit error and
\* enqueues nothing when the value has more elements than the limit, and
\* the check does not fail otherwise.
C4_OverLimitRejected ==
    (/\ last.call = "register_widget_and_enqueue"
     /\ last.args.max_selections # NoneV)
    => IF Len(last.value) > last.args.max_selections.n
          THEN last.status = "SelectionLimit" /\ ~Invoked("_enqueue")
       ELSE last.status # "SelectionLimit"

\* C5: the message a call enqueues carries set_value and an override exactly
\* when the registration reported value_changed; the override is then the
\* serializer's image of the value returned, and is empty otherwise.
C5_OverrideIffChanged ==
    (last.status = "ok" /\ queue # <<>>)
    => /\ TailProto = last.proto
       /\ TailProto.id = last.id
       /\ TailProto.set_value = last.value_changed
       /\ IF last.value_changed
             THEN /\ Len(TailProto.value) = Len(last.value)
                  /\ \A i \in 1..Len(last.value) :
                        TailProto.value[i] =
                            Index(last.indexable_options, last.value[i])
          ELSE TailProto.value = <<>>

\* A changed widget's message with a non-empty override is in the queue.
C5_Witness ==
    /\ last.status = "ok" /\ queue # <<>>
    /\ last.value_changed /\ TailProto.set_value /\ TailProto.value = <<1, 0>>

\* What a _button_group call that fails the policy gate has done: the
\* checks up to the failing one, in order, and nothing else.
PolicyAbort ==
    /\ last.status = "FragmentPathPolicy"
       => /\ last.steps = <<"check_fragment_path_policy">>
          /\ last.args.env.fragment_replay
    /\ last.status = "CacheReplay"
       => /\ last.steps = <<"check_fragment_path_policy",
                            "check_cache_replay_rules">>
          /\ ~last.args.env.fragment_replay /\ last.args.env.cache_replay
    /\ last.status = "CallbackNotAllowed"
       => /\ last.steps = <<"check_fragment_path_policy",
                            "check_cache_replay_rules",
                            "check_callback_rules">>
          /\ ~last.args.env.fragment_replay /\ ~last.args.env.cache_replay
          /\ last.args.on_change /\ last.args.env.callbacks_disallowed
    /\ last.status = "SessionStateConflict"
       => /\ last.steps = <<"check_fragment_path_policy",
                            "check_cache_replay_rules",
                            "check_callback_rules",
                            "check_session_state_rules">>
          /\ ~last.args.env.fragment_replay /\ ~last.args.env.cache_replay
          /\ ~(last.args.on_change /\ last.args.env.callbacks_disallowed)
          /\ DefaultNonEmpty(last.args.default)
    /\ (last.call = "button_group" /\ last.status \notin PolicyErrors)
       => /\ ~last.args.env.fragment_replay /\ ~last.args.env.cache_replay
          /\ ~(last.args.on_change /\ last.args.env.callbacks_disallowed)

\* C6: a _button_group call in which a policy check fails ends with that
\* check's error, has evaluated the checks in order up to that one only,
\* and leaves the identity-to-value table, the app-testing ledger and the
\* queue as they were.
C6_PolicyFailureAborts ==
    /\ [](last.call = "button_group" => PolicyAbort)
    /\ [][(ncalls' = ncalls + 1 /\ last'.status \in PolicyErrors)
          => UNCHANGED <<widget_states, ledger, queue>>]_vars

\* The session-state check has rejected a call while widgets are
\* registered and a message is queued.
C6_Witness ==
    /\ last.call = "button_group" /\ last.status = "SessionStateConflict"
    /\ widget_states # <<>> /\ queue # <<>>

\* C7: a registration with no external write pending reports value_changed
\* false and the widget default: the options at the default indices, which
\* are the default values in the order given, and no value at all when the
\* default is None and None is not an option.
C7_DefaultWhenNoWrite ==
    (Invoked("register_widget") /\ ~last.wire.present)
    => /\ ~last.value_changed
       /\ last.value = OptionsAt(last.indexable_options, last.default_indices)
       /\ last.call = "button_group"
          => /\ last.args.default.kind \in {"list", "scalar"}
                => last.value = last.args.default.items
             /\ (last.args.default.kind = "none"
                 /\ ~In(NoneV, last.args.options)) => last.value = <<>>

\* _button_group has returned a two-element default in the caller's order.
C7_Witness ==
    /\ last.call = "button_group" /\ last.status = "ok"
    /\ ~last.wire.present /\ ~last.value_changed
    /\ last.default_indices = <<1, 0>>
    /\ last.value = <<IntV(1), IntV(0)>>

\* C8: a registration with an external write pending reports value_changed
\* true and the options at the payload's indices (none for an empty
\* payload), and the message enqueued forces that value.
C8_ExternalWritePropagates ==
    (Invoked("register_widget") /\ last.wire.present)
    => /\ last.value_changed
       /\ last.value = OptionsAt(last.indexable_options, last.wire.indices)
       /\ last.wire.indices = <<>> => last.value = <<>>
       /\ (last.status = "ok" /\ queue # <<>>)
          => /\ TailProto.id = last.id
             /\ TailProto.set_value
             /\ OptionsAt(last.indexable_options, TailProto.value) = last.value

\* An empty payload has been registered for a widget whose default is not
\* empty, and its message is queued.
C8_Witness ==
    /\ last.status = "ok" /\ queue # <<>>
    /\ last.wire.present /\ last.wire.indices = <<>>
    /\ last.default_indices # <<>>
    /\ last.value = <<>> /\ TailProto.set_value

\* The positions of a step in the log of the last call.
StepsAt(step) == {i \in 1..Len(last.steps) : last.steps[i] = step}

\* The widget name a call enqueues its message under.
WidgetNameOf(call) ==
    IF call = "register_widget_and_enqueue" THEN "multiselect"
    ELSE "button_group"

\* C11: calls run one after the other, each registering its widget and
\* then enqueueing its own message: a call registers at most once and
\* enqueues at most once, after its registration; a call that succeeds
\* appends exactly its own message at the tail of the queue and leaves the
\* earlier messages in place, a call that fails leaves the queue as it
\* was, and nothing but a call adds a message.  So the queue holds the
\* messages of the run in the order of the registrations.
C11_QueueInCallOrder ==
    /\ [](/\ Cardinality(StepsAt("register_widget")) <= 1
          /\ Cardinality(StepsAt("_enqueue")) <= 1
          /\ \A j \in StepsAt("_enqueue") :
                /\ j = Len(last.steps)
                /\ \E i \in StepsAt("register_widget") : i < j
          /\ (last.status = "ok") = Invoked("_enqueue"))
    /\ [][IF ncalls' = ncalls + 1
             THEN IF last'.status = "ok"
                     THEN /\ queue' = Append(queue,
                                  [widget_name |-> WidgetNameOf(last'.call),
                                   proto |-> last'.proto])
                          /\ last'.proto.id = last'.id
                          /\ last'.id \in DOMAIN widget_states'
                  ELSE queue' = queue
          ELSE queue' = queue \/ queue' = <<>>]_vars

\* Two calls of one run have registered two widgets, and their messages
\* are queued in the order of the calls.
C11_Witness ==
    /\ ncalls = 2 /\ Len(queue) = 2
    /\ queue[1].proto.id # queue[2].proto.id
    /\ queue[2].proto.id = last.id
    /\ {queue[1].proto.id, queue[2].proto.id} \subseteq DOMAIN widget_states

----------------------------------------------------------------------------
(* The feedback widget                                                      *)

\* get_args(FeedbackOptions), as the error message of lines 204-205 lists
\* them.
FeedbackOptions == {"thumbs", "faces", "stars"}

\* The options argument of feedback: a str, a list of str, or None.
StrArg(label) == [kind |-> "str", label |-> label]
ListArg(label) == [kind |-> "list", label |-> label]
NoneArg == [kind |-> "none", label |-> ""]

\* Line 202: `not isinstance(options, list) and options not in
\* get_args(FeedbackOptions)`.  TRUE when the exception is raised.
InvalidFeedbackOption(options) ==
    /\ options.kind # "list"
    /\ ~(options.kind = "str" /\ options.label \in FeedbackOptions)

\* What get_mapped_options does with an argument that is none of the three
\* labels is not told: it returns no options, or it raises.
UnmappedBehaviours == {"empty", "raise"}

\* get_mapped_options: the icons and the option indices of a label.
GetMappedOptions(options, unmapped) ==
    IF options.kind = "str" /\ options.label \in FeedbackOptions
       THEN [status |-> "ok",
             transformed_options |-> FeedbackIcons(options.label),
             options_indices |->
                 [i \in 1..Len(FeedbackIcons(options.label)) |-> IntV(i - 1)],
             format_func |-> options.label]
    ELSE [status |-> IF unmapped = "empty" THEN "ok" ELSE "MappedOptionsError",
          transformed_options |-> <<>>, options_indices |-> <<>>,
          format_func |-> ""]

\* feedback, lines 202-231.  The value of the button group is the list the
\* MultiSelectSerde inside FeedbackSerde works on; feedback returns its
\* only element, or None.
FeedbackCall(options, key, on_change, env, unmapped, ctx, ws, pend, q, led) ==
    LET given == [feedback_options |-> options]
        none == Args(<<>>, NoDefault, <<>>, key, on_change, env, NoneV, "")
    IN IF InvalidFeedbackOption(options)
          THEN CallResult("feedback", "InvalidFeedbackOption", <<>>,
                          none @@ given, NoId, NoTransform, NoReg, NoProto,
                          ws, q, led)
       ELSE
       LET m == GetMappedOptions(options, unmapped)
       IN IF m.status # "ok"
             THEN CallResult("feedback", m.status, <<"get_mapped_options">>,
                             none @@ given, NoId, NoTransform, NoReg,
                             NoProto, ws, q, led)
          ELSE
          LET a == [Args(m.options_indices, NoDefault, <<>>, key, on_change,
                         env, NoneV, "format_func")
                      EXCEPT !.click_mode = "SINGLE_SELECT",
                             !.format_func = m.format_func,
                             !.selection_visualization =
                                 IF options = StrArg("stars")
                                    THEN "ALL_UP_TO_SELECTED"
                                 ELSE "ONLY_SELECTED"]
              r == ButtonGroupCall(a, env, ctx, ws, pend, q, led)
          IN [r EXCEPT !.call = "feedback",
                       !.steps = <<"get_mapped_options">> \o r.steps,
                       !.args = a @@ given]

\* The options arguments scripts pass to feedback.
FeedbackArgs ==
    {StrArg("thumbs"), StrArg("faces"), StrArg("stars"), StrArg("bogus"),
     ListArg("thumbs"), NoneArg}

\* The app script fixes the key of its feedback widget and runs with or
\* without a script-run context.
FeedbackInit ==
    /\ pc = "feedback" /\ opt = <<>> /\ dflt = NoDefault /\ res = NoRes
    /\ script \in [options : {<<>>}, key : Keys, ctx : Ctxs]
    /\ widget_states = <<>>
    /\ pending = <<>>
    /\ queue = <<>>
    /\ ledger = <<>>
    /\ last = Summary(NoCall)
    /\ ncalls = 0
    /\ callA = <<>> /\ callB = <<>>
    /\ nav_ctx = <<>> /\ nav = <<>>

\* A script calls feedback.
Feedback ==
    /\ ncalls < MaxCalls
    /\ \E options \in FeedbackArgs, c \in PolicyCases,
          unmapped \in UnmappedBehaviours :
         Finish(FeedbackCall(options, script.key, c.on_change, c.env,
                             unmapped, script.ctx, widget_states, pending,
                             queue, ledger))

FeedbackNext == Feedback \/ ExternalWrite \/ EndRun

SpecFeedback == FeedbackInit /\ [][FeedbackNext]_vars

\* The options argument of the last feedback call is one of the labels.
RecognisedLabel ==
    /\ last.args.feedback_options.kind = "str"
    /\ last.args.feedback_options.label \in FeedbackOptions

\* C12 as stated: a feedback call whose options argument is none of the
\* three labels has failed with the invalid-feedback-option error before
\* any policy check, registration or enqueue; a call with one of the
\* labels has gone on to a single-select button group.
C12_UnrecognisedOptionsRejected ==
    /\ [](last.call = "feedback"
          => IF RecognisedLabel
                THEN /\ last.status # "InvalidFeedbackOption"
                     /\ Invoked("check_fragment_path_policy")
                     /\ last.args.click_mode = "SINGLE_SELECT"
             ELSE /\ last.status = "InvalidFeedbackOption"
                  /\ last.steps = <<>>)
    /\ [][(ncalls' = ncalls + 1 /\ last'.status = "InvalidFeedbackOption")
          => UNCHANGED <<widget_states, ledger, queue>>]_vars

\* C13 as stated: in every call that makes the max-selections check, the
\* coercion of the value has been made before it, so that the value
\* counted is the coerced one and none is rejected uncoerced.
C13_CheckAfterCoercion ==
    Invoked("check_max_selections")
    => /\ Invoked("maybe_coerce")
       /\ \A j \in StepsAt("check_max_selections") :
             \E i \in StepsAt("maybe_coerce") : i < j

\* The last call has failed after the policy gate, on the max-selections
\* check or in the serializer.
FailedAfterGate ==
    \/ last.status = "SelectionLimit"
    \/ last.status # "ok" /\ Invoked("serializer")

\* The identities of the widgets with a message in the queue.
Enqueued == {queue[i].proto.id : i \in 1..Len(queue)}

----------------------------------------------------------------------------
(* Navigation (commands/pages.py)                                          *)

\* calc_md5: a hash without collisions.
CalcMd5(str) == <<"md5", str>>

\* A Page object: its resolved path and its title (lines 63-67).
Page(page, title) == [page |-> page, title |-> title, icon |-> ""]

\* Page._script_hash, lines 76-79.
ScriptHash(page) == CalcMd5(page.page)

\* The Page objects scripts build: two of one path, which differ by their
\* titles, and one of another path.
Pages == {Page("a", "T"), Page("a", "U"), Page("b", "T")}

\* Section headers of a mapping; "" is the header given to a list.
Headers == {"A", "B"}
Section(header, pages) == [header |-> header, pages |-> pages]

\* Line 90-91: a list of pages becomes the mapping {"": pages}; a mapping
\* is the sequence of its sections in insertion order.
AsSections(kind, sections) ==
    IF kind = "list" THEN <<Section("", sections)>> ELSE sections

\* The pages of the sections, in the order the loops of lines 94-97 and
\* 106-107 visit them.
RECURSIVE Flatten(_)
Flatten(sections) ==
    IF sections = <<>> THEN <<>>
    ELSE Head(sections).pages \o Flatten(Tail(sections))

\* The arguments of navigation: a list of pages, or a mapping of up to two
\* sections with different headers, of at most MaxPages pages in all.
NavArgs ==
    {[kind |-> "list", pages |-> ps] : ps \in SeqsUpTo(Pages, MaxPages)}
    \cup {[kind |-> "dict", pages |-> <<>>]}
    \cup {[kind |-> "dict", pages |-> <<Section(h, ps)>>] :
              h \in Headers, ps \in SeqsUpTo(Pages, MaxPages)}
    \cup {[kind |-> "dict", pages |-> <<Section(h1, p1), Section(h2, p2)>>] :
              h1 \in Headers, h2 \in Headers,
              p1 \in SeqsUpTo(Pages, MaxPages),
              p2 \in SeqsUpTo(Pages, MaxPages)}

\* page_dict[key] = value on a dict kept as the sequence of its entries in
\* insertion order: a key already there keeps its place and takes the
\* new value.
DictSet(d, key, value) ==
    IF \E i \in 1..Len(d) : d[i].key = key
       THEN [i \in 1..Len(d) |->
                IF d[i].key = key THEN [key |-> key, value |-> value]
                ELSE d[i]]
    ELSE Append(d, [key |-> key, value |-> value])

\* Lines 105-108: the table of the pages by their hashes.
RECURSIVE PageDict(_, _)
PageDict(d, pages) ==
    IF pages = <<>> THEN d
    ELSE PageDict(DictSet(d, ScriptHash(Head(pages)), Head(pages)),
                  Tail(pages))

\* Lines 93-101: the navigation message.
NavigationMsg(sections) ==
    [i \in 1..Len(sections) |->
        [header |-> sections[i].header,
         app_pages |->
            [j \in 1..Len(sections[i].pages) |->
                [page_script_hash |-> ScriptHash(sections[i].pages[j]),
                 page_name |-> sections[i].pages[j].title,
                 icon |-> sections[i].pages[j].icon]]]]

NoPage == Page("", "")

\* navigation, lines 87-118, on the context ctx: the outcome and the
\* context it leaves.
NavigationCall(pages, ctx) ==
    LET sections == AsSections(pages.kind, pages.pages)
        page_dict == PageDict(<<>>, Flatten(sections))
        ctx2 == [ctx EXCEPT !.msgs = Append(ctx.msgs, NavigationMsg(sections)),
                            !.pages = page_dict]
        found == {i \in 1..Len(page_dict) :
                     page_dict[i].key = ctx.page_script_hash}
    IN IF found # {}
          THEN [status |-> "ok", fallback |-> FALSE, pages |-> pages,
                page |-> page_dict[CHOOSE i \in found : TRUE].value,
                ctx |-> ctx2]
       ELSE IF page_dict = <<>>
          THEN [status |-> "IndexError", fallback |-> TRUE, pages |-> pages,
                page |-> NoPage, ctx |-> ctx2]
       ELSE [status |-> "ok", fallback |-> TRUE, pages |-> pages,
             page |-> page_dict[1].value, ctx |-> ctx2]

\* The page identities a run can be started for: the pages' and the main
\* script's.
PageScriptHashes == {ScriptHash(p) : p \in Pages} \cup {CalcMd5("main")}

NotNavigated == [status |-> "none", fallback |-> FALSE,
                 pages |-> [kind |-> "list", pages |-> <<>>], page |-> NoPage]

NavInit ==
    /\ pc = "navigation" /\ opt = <<>> /\ dflt = NoDefault /\ res = NoRes
    /\ widget_states = <<>> /\ pending = <<>> /\ queue = <<>>
    /\ ledger = <<>> /\ last = <<>> /\ ncalls = 0 /\ script = <<>>
    /\ callA = <<>> /\ callB = <<>>
    /\ nav_ctx \in [page_script_hash : PageScriptHashes, pages : {<<>>},
                     msgs : {<<>>}]
    /\ nav = NotNavigated

\* The script of the run calls navigation.
Navigation ==
    /\ nav.status = "none"
    /\ \E pages \in NavArgs :
         /\ pages.kind = "dict"
            => \A i, j \in 1..Len(pages.pages) :
                  i # j => pages.pages[i].header # pages.pages[j].header
         /\ Len(Flatten(AsSections(pages.kind, pages.pages))) <= MaxPages
         /\ LET r == NavigationCall(pages, nav_ctx)
            IN /\ nav_ctx' = r.ctx
               /\ nav' = [x \in (DOMAIN r) \ {"ctx"} |-> r[x]]
    /\ UNCHANGED <<pureVars, widgetVars, idVars>>

\* The run ends and the script is run again for a page the client asks
\* for; the context keeps its table of pages.
Rerun ==
    /\ nav.status # "none"
    /\ \E h \in PageScriptHashes :
         nav_ctx' = [nav_ctx EXCEPT !.page_script_hash = h, !.msgs = <<>>]
    /\ nav' = NotNavigated
    /\ UNCHANGED <<pureVars, widgetVars, idVars>>

NavNext == Navigation \/ Rerun

SpecNav == NavInit /\ [][NavNext]_vars

\* The pages passed to the last navigation call.
Supplied ==
    LET ps == Flatten(AsSections(nav.pages.kind, nav.pages.pages))
    IN {ps[i] : i \in 1..Len(ps)}

\* ctx.pages is a table keyed by page hash: no key twice, every entry a
\* supplied page under its own hash, and every supplied page's hash a key.
TableByHash ==
    /\ \A i, j \in 1..Len(nav_ctx.pages) :
          nav_ctx.pages[i].key = nav_ctx.pages[j].key => i = j
    /\ \A i \in 1..Len(nav_ctx.pages) :
          /\ nav_ctx.pages[i].value \in Supplied
          /\ nav_ctx.pages[i].key = ScriptHash(nav_ctx.pages[i].value)
    /\ \A p \in Supplied :
          \E i \in 1..Len(nav_ctx.pages) :
             nav_ctx.pages[i].key = ScriptHash(p)

\* C14 as stated: whatever list or mapping is passed, navigation does not
\* fail: it returns a supplied page of the context's page identity when
\* there is one and the first entry of the table otherwise, and ctx.pages
\* is the table of the supplied pages by their hashes.
C14_NavigationNeverFails ==
    nav.status # "none"
    => /\ nav.status = "ok"
       /\ nav.page \in Supplied
       /\ IF \E p \in Supplied : ScriptHash(p) = nav_ctx.page_script_hash
             THEN ScriptHash(nav.page) = nav_ctx.page_script_hash
          ELSE nav.page = nav_ctx.pages[1].value
       /\ TableByHash

====
